---- MODULE Spec2Model ----
(***************************************************************************)
(* A model of the Nostr client of the mint-audit bot (nostr.ts, kept as    *)
(* src/unnamed/part_001): the relay stream multiplexer Nostr.filter, the   *)
(* publishing operations sendPost / sendThreadPost / sendReplyPost, the    *)
(* session operations connect / disconnect / reconnect, the key setters    *)
(* and getProfile; and of the bot's polling loop doIt / checkMints         *)
(* (src/main.ts), whose runs the interval timer may start while earlier    *)
(* ones are suspended.  Each part has its own specification; the           *)
(* variables of the other parts stay idle in it.                           *)
(*                                                                         *)
(* Array indices carried by the code (indexResult.i) are kept zero-based   *)
(* as in the source; a TLA+ sequence position is that index plus one.      *)
(***************************************************************************)
EXTENDS Integers, Sequences, FiniteSets, TLC

(* ------------------------------ bounds --------------------------------- *)

\* Events that the relay streams together deliver during one filter() run
\* over all sessions of relayList; a run over fewer sessions gets one event
\* more for every session less (EventBudget).
MaxEvents == 2

\* Event identifiers are 1..MaxId (two relays may deliver the same id).
MaxId == 2

\* Items in the list handed to sendThreadPost.
MaxPosts == 3

\* Date.now() / 1000 runs over 1..MaxTime during one sendThreadPost call.
MaxTime == 2

\* connect() is called again only while the sessions it could add fit.
MaxSessions == 4

\* Assignments to nostr.privateKey and nostr.publicKey in one run.
MaxKeyOps == 3

\* created_at of a received event runs over 0..MaxStamp.
MaxStamp == 2

\* Events that filter(filters).collect() returns to one getProfile query.
MaxCollected == 2

\* Mints the audit API lists.
MaxMints == 2

\* Runs of doIt: the first, and those setInterval starts.
MaxCycles == 2

(* --------------------------- configuration ----------------------------- *)

\* nostr.relayList as main.ts fills it from the RELAYS setting.
relayList == <<"r1", "r2", "r3">>

VARIABLES
    relayInstances,   \* Nostr.relayInstances: the active sessions, in push order
    unique,           \* filter()'s second argument
    relayIterators,   \* filter(): one event iterator per active session
    indexedPromises,  \* the pending/settled next() operation of each iterator
    yieldedEventIds,  \* identifiers already yielded (dedup on)
    indexResult,      \* the race result the generator is suspended on at
                      \* yield, or the rejection it threw
    raceWinner,       \* position Promise.race settles with (0: still waiting)
    genPc,            \* position of the async generator ("error": it threw)
    merged,           \* what the consumer has received, in order
    handled,          \* every event result the loop took from a race, in order
    produced,         \* per iterator: how many events it has delivered
    exhausted,        \* the iterators that have reported done
    privateKey,       \* Nostr._privateKey
    publicKey,        \* Nostr._publicKey
    clock,            \* Math.floor(Date.now() / 1000)
    threadArg,        \* the list sendThreadPost was called with
    posts,            \* sendThreadPost's posts array, after the shift
    threadPc,         \* position of sendThreadPost
    threadI,          \* sendThreadPost's loop index i
    firstPost,        \* sendThreadPost's firstPost
    lastPost,         \* sendThreadPost's lastPost
    thrown,           \* what the publish call threw ("" if nothing)
    event,            \* sendPost's event
    sendPc,           \* position of sendPost
    relayIdx,         \* sendPost's position in for (relay of relayInstances)
    inFlight,         \* relay.sendEvent calls started and not yet settled
    postNo,           \* number of sendPost calls made so far
    posted,           \* the events of the sendPost calls that returned
    pubLog,           \* history of the steps of sendPost
    replyPc,          \* position of sendReplyPost or of sendTextPost
    parentPost,       \* sendReplyPost's argument post
    replyPost,        \* the post sendReplyPost or sendTextPost returned
    endpoints,        \* Nostr.relayList when connect() is called
    connPc,           \* position of connect()
    connIdx,          \* connect(): position of relayItem in relayList
    connBase,         \* number of sessions when connect() was called
    connLog,          \* history of the steps of the current connect() call
    batchOp,          \* the batch under way: disconnect or reconnect
    batchPc,          \* position of the batch
    outcomes,         \* per session: the promise the batch got for it
    keyLog,           \* the calls of the privateKey and publicKey setters
    profPc,           \* position of getProfile ("thrown": JSON.parse threw;
                      \* "rejected": a relay's rejection came through)
    profIdx,          \* getProfileEvents: position of relay in relayInstances
    metaData,         \* getProfileEvents: the data of each relay asked so far
    profEvents,       \* getProfileEvents: events
    profileInfo,      \* getProfile: profileInfo
    followingInfo,    \* getProfile: followingInfo (none: <<>>)
    followerEvents,   \* getFollowerInfo: events
    mintState,        \* audit API: the state of each mint now
    oldMints,         \* main.ts oldMints: the saved state of each mint
    pollPc,           \* per run of doIt: its position
    cycle,            \* number of doIt runs started
    atStart,          \* per run: oldMints and the audit API's mints as
                      \* the run started
    returned,         \* per run: what its checkMints returned, not yet
                      \* pushed (none: <<>>)
    arrays,           \* the arrays main.ts has created, by reference
    threadMessages,   \* main.ts threadMessages: the array it refers to
    pushTarget,       \* per run: the array line 203 calls push on
    postsArg,         \* per run: sendThreadPost's posts, a reference
    postsI,           \* per run: sendThreadPost's loop index i
    published,        \* per run: the texts its sendThreadPost has sent
    caught            \* per run: the error doIt's catch logged ("": none)

muxVars == <<unique, relayIterators, indexedPromises, yieldedEventIds,
             indexResult, raceWinner, genPc, merged, handled, produced,
             exhausted>>

replyVars == <<replyPc, parentPost, replyPost>>

pubVars == <<privateKey, publicKey, clock, threadArg, posts, threadPc, threadI,
             firstPost, lastPost, thrown, event, sendPc, relayIdx, inFlight,
             postNo, posted, pubLog, replyVars>>

connVars == <<endpoints, connPc, connIdx, connBase, connLog, batchOp, batchPc,
              outcomes>>

keyVars == <<keyLog>>

profVars == <<profPc, profIdx, metaData, profEvents, profileInfo,
              followingInfo, followerEvents>>

pollVars == <<mintState, oldMints, pollPc, cycle, atStart, returned,
              arrays, threadMessages, pushTarget, postsArg, postsI, published,
              caught>>

appVars == <<connVars, keyVars, profVars, pollVars>>

vars == <<relayInstances, muxVars, pubVars, appVars>>

(* ------------------------------ helpers -------------------------------- *)

NoEvent == [id |-> 0, src |-> 0, seq |-> 0]

NoResult ==
    [src |-> 0, st |-> "none", done |-> FALSE, ev |-> NoEvent, i |-> 0,
     armedAt |-> 0]

EventIds == 1..MaxId

RECURSIVE SetToSeq(_, _)
\* The elements of relayList at the positions in S, in list order.
SetToSeq(S, k) ==
    IF k > Len(relayList) THEN <<>>
    ELSE IF k \in S THEN <<relayList[k]>> \o SetToSeq(S, k + 1)
         ELSE SetToSeq(S, k + 1)

\* The session lists connect() can leave: it pushes the endpoints that
\* connected, in list order, and skips the ones that failed.
ConnectedSets == {SetToSeq(S, 1) : S \in SUBSET (1..Len(relayList))}

RECURSIVE SumTo(_, _)
SumTo(f, n) == IF n = 0 THEN 0 ELSE f[n] + SumTo(f, n - 1)

TotalProduced == SumTo(produced, Len(relayInstances))

\* Array.prototype.splice(start, 1) on a sequence, start zero-based.
Splice(s, start) ==
    LET from == IF start < 0 THEN (IF Len(s) + start < 0 THEN 0 ELSE Len(s) + start)
                ELSE start
    IN IF from + 1 \in DOMAIN s
       THEN [k \in 1..(Len(s) - 1) |-> IF k < from + 1 THEN s[k] ELSE s[k + 1]]
       ELSE s

\* Array.prototype.indexOf(id) === -1
NotYielded(ids, id) == \A k \in DOMAIN ids : ids[k] # id

\* The empty string of an id, a sig or a reference not given: all falsy.
NoId == <<>>

\* schnorr.getPublicKey is secp.ts: a fixed public key for each private key,
\* and an error (Throws) for a string that is no private key.
PrivateKeys == {"sk1", "sk2"}

Throws == "throws"

getPublicKey(sk) ==
    CASE sk = "sk1" -> "pk1"
      [] sk = "sk2" -> "pk2"
      [] OTHER -> Throws

\* sendPost has no event.
NoNostrEvent ==
    [content |-> <<>>, created_at |-> 0, id |-> NoId, kind |-> 0,
     pubkey |-> "", sig |-> NoId, tags |-> <<>>]

\* null, the initial lastPost.
NoPost ==
    [id |-> NoId, author |-> "", content |-> <<>>, createdAt |-> 0,
     rootReference |-> NoId, reference |-> NoId, mentionTo |-> NoId]

\* No publish call has been made.
PubIdle ==
    /\ clock = 1
    /\ threadArg = <<>>
    /\ posts = <<>>
    /\ threadPc = "idle"
    /\ threadI = 0
    /\ firstPost = NoPost
    /\ lastPost = NoPost
    /\ thrown = ""
    /\ event = NoNostrEvent
    /\ sendPc = "none"
    /\ relayIdx = 0
    /\ inFlight = {}
    /\ postNo = 0
    /\ posted = <<>>
    /\ pubLog = <<>>
    /\ replyPc = "idle"
    /\ parentPost = NoPost
    /\ replyPost = NoPost

\* connect(), disconnect() and reconnect() are not running; the endpoint
\* list is the configured one.
ConnIdle ==
    /\ endpoints = relayList
    /\ connPc = "idle"
    /\ connIdx = 0
    /\ connBase = 0
    /\ connLog = <<>>
    /\ batchOp = "none"
    /\ batchPc = "idle"
    /\ outcomes = <<>>

\* No key has been assigned since the identity was set up.
KeyIdle == keyLog = <<>>

\* const profileInfo: ProfileInfo = {}, line 245: every field absent.  A
\* field is a sequence: empty when absent, else holding its value.
EmptyProfile ==
    [name |-> <<>>, relays |-> <<>>, following |-> <<>>, follower |-> <<>>]

\* getProfile has not been called.
ProfIdle ==
    /\ profPc = "idle"
    /\ profIdx = 0
    /\ metaData = <<>>
    /\ profEvents = <<>>
    /\ profileInfo = EmptyProfile
    /\ followingInfo = <<>>
    /\ followerEvents = <<>>

\* The runs of doIt that main() and the interval timer start.
Runs == 1..MaxCycles

\* main.ts line 103 and no run of doIt yet: threadMessages refers to the
\* one array there is, which is empty.
NoRunYet ==
    /\ pollPc = [c \in Runs |-> "unstarted"]
    /\ cycle = 0
    /\ atStart = [c \in Runs |-> [saved |-> <<>>, mints |-> <<>>]]
    /\ returned = [c \in Runs |-> <<>>]
    /\ arrays = << <<>> >>
    /\ threadMessages = 1
    /\ pushTarget = [c \in Runs |-> 0]
    /\ postsArg = [c \in Runs |-> 0]
    /\ postsI = [c \in Runs |-> 0]
    /\ published = [c \in Runs |-> <<>>]
    /\ caught = [c \in Runs |-> ""]

\* main.ts has not reached main().
PollIdle ==
    /\ mintState = <<>>
    /\ oldMints = <<>>
    /\ NoRunYet

AppIdle == ConnIdle /\ KeyIdle /\ ProfIdle /\ PollIdle

(* ------------------- Nostr.filter: the multiplexer --------------------- *)

\* indexPromise(p, i), lines 188-190: the pending operation of iterator
\* src.  Fulfilled, its result {value, i} carries the index i, which line
\* 201 lowers when an earlier slot is removed; rejected, its reason
\* {reason, i} carries the index the operation was armed with (armedAt),
\* which nothing lowers.
indexPromise(src, i) ==
    [src |-> src, st |-> "pending", done |-> FALSE, ev |-> NoEvent, i |-> i,
     armedAt |-> i]

\* Mutant of PromiseRace: the loop awaits the first slot instead of racing.
AwaitFirstSlot(proms) ==
    IF proms # <<>> /\ proms[1].st # "pending" THEN 1 ELSE 0

\* Promise.race(indexedPromises), line 196, at the moment it is called: of
\* the already settled promises, fulfilled or rejected, the first in array
\* order wins; with none settled the race waits (0) for the first one to
\* settle.
PromiseRace(proms) ==
    LET settled == {k \in DOMAIN proms : proms[k].st # "pending"}
    IN IF settled = {} THEN 0
       ELSE CHOOSE k \in settled : \A m \in settled : k <= m

\* Mutant of DedupOn: the caller's flag is ignored.
DedupAlways == TRUE

\* Line 169: the dedup policy is the caller's second argument.
DedupOn == unique

\* Line 204: the dedup test.
ShouldYield(id) == ~DedupOn \/ NotYielded(yieldedEventIds, id)

\* Mutant of RecordYielded: the yielded identifier is not recorded.
RecordYieldedNever(ids, id) == ids

\* Lines 206-208: the identifier is recorded after the yield.
RecordYielded(ids, id) == IF DedupOn THEN Append(ids, id) ELSE ids

\* Mutant of RemoveSlot: the later operations keep the index they carried.
RemoveSlotNoRetarget(proms, k) == Splice(proms, k)

\* Lines 199-202: drop the slot of the exhausted iterator and re-target the
\* index carried by every later operation: then(r => {r.i--; return r}),
\* which does not run for a rejected one.
RemoveSlot(proms, k) ==
    LET cut == Splice(proms, k)
    IN [m \in DOMAIN cut |->
          IF m >= k + 1 /\ cut[m].st # "rejected"
          THEN [cut[m] EXCEPT !.i = @ - 1] ELSE cut[m]]

\* Mutant of Rearm: the consumed operation is left in its slot.
RearmForgotten(proms, iters, k) == proms

\* Line 210: a new next() on the iterator at index k replaces slot k.
Rearm(proms, iters, k) ==
    [proms EXCEPT ![k + 1] = indexPromise(iters[k + 1], k)]

\* Mutant of LoopAgain: the loop stops with one iterator still active.
LoopAgainEarlyExit(iters, proms) ==
    IF Len(iters) > 1
    THEN genPc' = "race" /\ raceWinner' = PromiseRace(proms)
    ELSE genPc' = "done" /\ raceWinner' = 0

\* Line 195 and 196: the loop test, then the next race.
LoopAgain(iters, proms) ==
    IF Len(iters) > 0
    THEN genPc' = "race" /\ raceWinner' = PromiseRace(proms)
    ELSE genPc' = "done" /\ raceWinner' = 0

\* The consumer's first next(): lines 192-196.
GenStart ==
    /\ genPc = "idle"
    /\ indexedPromises' =
          [k \in DOMAIN relayIterators |-> indexPromise(relayIterators[k], k - 1)]
    /\ LoopAgain(relayIterators, indexedPromises')
    /\ UNCHANGED <<relayInstances, unique, relayIterators, yieldedEventIds,
                   indexResult, merged, handled, produced, exhausted>>
    /\ UNCHANGED <<pubVars, appVars>>

\* The events the streams of this run deliver at most.
EventBudget == MaxEvents + Len(relayList) - Len(relayInstances)

\* The iterators' side of the loop: the slots, the events each iterator has
\* delivered, the iterators that reported done, and the slots whose
\* operations settled in the present turn of the event loop, in the order
\* they settled.
Sources ==
    [proms |-> indexedPromises, produced |-> produced,
     exhausted |-> exhausted, turn |-> <<>>]

\* The identifiers delivered so far.
DeliveredIds(s) ==
    {handled[k].id : k \in DOMAIN handled}
    \cup {s.proms[j].ev.id :
            j \in {m \in DOMAIN s.proms :
                     s.proms[m].st = "settled" /\ ~s.proms[m].done}}

\* The identifier of the next delivered event: one delivered before, or the
\* least one not delivered yet.  The loop compares identifiers only for
\* equality (line 204), so numbering them by first delivery loses no case.
NextIds(s) ==
    {id \in EventIds : \A m \in 1..(id - 1) : m \in DeliveredIds(s)}

\* The pending next() of slot j can settle with outcome (and, an event, with
\* identifier id).
CanSettle(s, j, outcome, id) ==
    /\ s.proms[j].st = "pending"
    /\ IF outcome = "event"
       THEN /\ SumTo(s.produced, Len(relayInstances)) < EventBudget
            /\ s.proms[j].src \notin s.exhausted
            /\ id \in NextIds(s)
       ELSE id = 1

\* What a relay's event iterator does is relay.ts; of it the model keeps that
\* next() settles with the iterator's next event, with done, or with a
\* rejection (line 189, catch), whose reason carries the index the operation
\* was armed with.
IteratorNext(s, j, outcome, id) ==
    LET src == s.proms[j].src
        settled ==
            CASE outcome = "done" ->
                    [s.proms[j] EXCEPT !.st = "settled", !.done = TRUE]
              [] outcome = "rejected" ->
                    [s.proms[j] EXCEPT !.st = "rejected",
                                       !.i = s.proms[j].armedAt]
              [] OTHER ->
                    [s.proms[j] EXCEPT
                       !.st = "settled",
                       !.ev = [id |-> id, src |-> src,
                               seq |-> s.produced[src] + 1]]
    IN [proms |-> [s.proms EXCEPT ![j] = settled],
        produced |-> IF outcome = "event"
                     THEN [s.produced EXCEPT ![src] = @ + 1] ELSE s.produced,
        exhausted |-> IF outcome = "done"
                      THEN s.exhausted \cup {src} ELSE s.exhausted,
        turn |-> Append(s.turn, j)]

\* What the iterators' side can be after at most n more operations settled
\* in the same turn of the event loop.
RECURSIVE SameTurn(_, _)
SameTurn(s, n) ==
    IF n = 0 THEN {s}
    ELSE {s} \cup
         UNION {SameTurn(IteratorNext(s, x[1], x[2], x[3]), n - 1) :
                  x \in {y \in (DOMAIN s.proms) \X
                                {"event", "done", "rejected"} \X EventIds :
                            CanSettle(s, y[1], y[2], y[3])}}

\* The promise jobs between the settling of the next() of slot j and the
\* settling of the promise the race looks at: line 189 passes a result on
\* in one job, p.then(...), and a rejection in two, p.then(...).catch(...);
\* every then(r => {r.i--; return r}) of line 201 chained to the slot since
\* it was armed, one for each position it moved down, adds one.
ForwardJobs(proms, j) ==
    1 + (proms[j].armedAt - (j - 1))
      + (IF proms[j].st = "rejected" THEN 1 ELSE 0)

\* Of the operations settled in one turn, the one whose slot settles first:
\* the one with the fewest jobs to run, and of several the one whose next()
\* settled first.
FirstForwarded(s) ==
    LET k == CHOOSE a \in DOMAIN s.turn :
                \A b \in DOMAIN s.turn :
                   \/ ForwardJobs(s.proms, s.turn[a])
                        < ForwardJobs(s.proms, s.turn[b])
                   \/ /\ ForwardJobs(s.proms, s.turn[a])
                           = ForwardJobs(s.proms, s.turn[b])
                      /\ a <= b
    IN s.turn[k]

\* One turn of the event loop while the generator exists: one or more of
\* the pending next() settle, and the promise jobs that pass their results
\* on to the slots run.  A race that was waiting settles with the slot that
\* settles first.  The generator runs on two jobs after that slot settled
\* (the job of the race's reaction and the job of the await); the other
\* slots of the turn have settled before the generator's next race is
\* decided, since of two or more slots none has been moved down more than
\* Len(relayList) - 2 times.
Arrive ==
    /\ genPc \in {"race", "yield"}
    /\ \E s \in SameTurn(Sources, Len(indexedPromises)) :
          /\ s.turn # <<>>
          /\ indexedPromises' = s.proms
          /\ produced' = s.produced
          /\ exhausted' = s.exhausted
          /\ raceWinner' = IF genPc = "race" /\ raceWinner = 0
                           THEN FirstForwarded(s)
                           ELSE raceWinner
    /\ UNCHANGED <<relayInstances, unique, relayIterators, yieldedEventIds,
                   indexResult, genPc, merged, handled>>
    /\ UNCHANGED <<pubVars, appVars>>

\* Lines 197-202: the race gave the done result of an exhausted iterator.
HandleDone ==
    /\ genPc = "race" /\ raceWinner # 0
    /\ indexedPromises[raceWinner].st = "settled"
    /\ indexedPromises[raceWinner].done
    /\ LET k == indexedPromises[raceWinner].i
       IN /\ relayIterators' = Splice(relayIterators, k)
          /\ indexedPromises' = RemoveSlot(indexedPromises, k)
          /\ LoopAgain(relayIterators', indexedPromises')
    /\ UNCHANGED <<relayInstances, unique, yieldedEventIds, indexResult,
                   merged, handled, produced, exhausted>>
    /\ UNCHANGED <<pubVars, appVars>>

\* Lines 204-205: the race gave an event that is forwarded; the generator
\* is suspended at the yield.
HandleYield ==
    /\ genPc = "race" /\ raceWinner # 0
    /\ indexedPromises[raceWinner].st = "settled"
    /\ ~indexedPromises[raceWinner].done
    /\ ShouldYield(indexedPromises[raceWinner].ev.id)
    /\ indexResult' = indexedPromises[raceWinner]
    /\ merged' = Append(merged, indexedPromises[raceWinner].ev)
    /\ handled' = Append(handled, indexedPromises[raceWinner].ev)
    /\ genPc' = "yield"
    /\ raceWinner' = 0
    /\ UNCHANGED <<relayInstances, unique, relayIterators, indexedPromises,
                   yieldedEventIds, produced, exhausted>>
    /\ UNCHANGED <<pubVars, appVars>>

\* Lines 204 and 210: the race gave an event whose identifier was already
\* yielded; it is dropped and its iterator re-armed.
HandleDrop ==
    /\ genPc = "race" /\ raceWinner # 0
    /\ indexedPromises[raceWinner].st = "settled"
    /\ ~indexedPromises[raceWinner].done
    /\ ~ShouldYield(indexedPromises[raceWinner].ev.id)
    /\ handled' = Append(handled, indexedPromises[raceWinner].ev)
    /\ LET k == indexedPromises[raceWinner].i
       IN IF k + 1 \in DOMAIN relayIterators
          THEN /\ indexedPromises' = Rearm(indexedPromises, relayIterators, k)
               /\ LoopAgain(relayIterators, indexedPromises')
          ELSE \* relayIterators[k] is undefined: TypeError
               /\ genPc' = "error" /\ raceWinner' = 0
               /\ UNCHANGED indexedPromises
    /\ UNCHANGED <<relayInstances, unique, relayIterators, yieldedEventIds,
                   indexResult, merged, produced, exhausted>>
    /\ UNCHANGED <<pubVars, appVars>>

\* Line 196: the race gave a rejection; the await throws its reason
\* {reason, i} out of the generator, which is over.  The operations of the
\* other iterators stay as they are.
HandleReject ==
    /\ genPc = "race" /\ raceWinner # 0
    /\ indexedPromises[raceWinner].st = "rejected"
    /\ indexResult' = indexedPromises[raceWinner]
    /\ genPc' = "error"
    /\ raceWinner' = 0
    /\ UNCHANGED <<relayInstances, unique, relayIterators, indexedPromises,
                   yieldedEventIds, merged, handled, produced, exhausted>>
    /\ UNCHANGED <<pubVars, appVars>>

\* Lines 206-210: the consumer asks for the next item; the generator resumes
\* after the yield.
GenResume ==
    /\ genPc = "yield"
    /\ yieldedEventIds' = RecordYielded(yieldedEventIds, indexResult.ev.id)
    /\ indexResult' = NoResult
    /\ LET k == indexResult.i
       IN IF k + 1 \in DOMAIN relayIterators
          THEN /\ indexedPromises' = Rearm(indexedPromises, relayIterators, k)
               /\ LoopAgain(relayIterators, indexedPromises')
          ELSE /\ genPc' = "error" /\ raceWinner' = 0
               /\ UNCHANGED indexedPromises
    /\ UNCHANGED <<relayInstances, unique, relayIterators, merged, handled,
                   produced, exhausted>>
    /\ UNCHANGED <<pubVars, appVars>>

\* The consumer stops iterating (break out of for await): return() on the
\* generator suspended at the yield.  The generator has no finally block:
\* it completes and touches nothing.
GenReturn ==
    /\ genPc = "yield"
    /\ genPc' = "closed"
    /\ UNCHANGED <<relayInstances, unique, relayIterators, indexedPromises,
                   yieldedEventIds, indexResult, raceWinner, merged, handled,
                   produced, exhausted>>
    /\ UNCHANGED <<pubVars, appVars>>

\* The state after nostr.filter(filters, unique): line 170.  The multiplexer
\* reads of the sessions only how many there are.
MuxInit ==
    /\ relayInstances \in {SubSeq(relayList, 1, n) : n \in 0..Len(relayList)}
    /\ unique \in BOOLEAN
    /\ relayIterators = [k \in 1..Len(relayInstances) |-> k]
    /\ indexedPromises = <<>>
    /\ yieldedEventIds = <<>>
    /\ indexResult = NoResult
    /\ raceWinner = 0
    /\ genPc = "idle"
    /\ merged = <<>>
    /\ handled = <<>>
    /\ produced = [k \in 1..Len(relayInstances) |-> 0]
    /\ exhausted = {}
    /\ privateKey = "sk1" /\ publicKey = getPublicKey(privateKey)
    /\ PubIdle
    /\ AppIdle

MuxNext ==
    \/ GenStart
    \/ Arrive
    \/ HandleDone
    \/ HandleYield
    \/ HandleDrop
    \/ HandleReject
    \/ GenResume
    \/ GenReturn

MuxSpec == MuxInit /\ [][MuxNext]_vars

\* for await in collect()/each() asks for the next item as soon as it has
\* one, and the event loop runs a settled race's continuation.  Nothing
\* obliges a relay to send.
MuxFairSpec ==
    /\ MuxSpec
    /\ WF_vars(GenStart)
    /\ WF_vars(HandleDone)
    /\ WF_vars(HandleYield)
    /\ WF_vars(HandleDrop)
    /\ WF_vars(HandleReject)
    /\ WF_vars(GenResume)

(* ---------------- publishing: sendPost, sendThreadPost ----------------- *)

\* NostrKind.TEXT_NOTE, line 14.
TEXT_NOTE == 1

\* The k-th text of a thread; sendThreadPost never looks into a text.
Text(k) == <<"text", k>>

\* Lines 379-382: the canonical tuple.
eventCommitment(ev) ==
    <<0, ev.pubkey, ev.created_at, ev.kind, ev.tags, ev.content>>

\* Lines 406-411: sha256 of the commitment, hex-encoded; the hash is taken
\* to be collision free, so the digest stands for what was hashed.
calculateId(ev) == <<"sha256", eventCommitment(ev)>>

\* Lines 413-415 and 445: schnorr.sign(id, privateKey), hex-encoded.
signId(id) == <<"sig", privateKey, id>>

\* Lines 418-442: the event sendPost builds before its first await.
BuildEvent(content, rootReference, reference, now) ==
    LET rootTags == IF rootReference # NoId
                    THEN << <<"e", rootReference, "", "root">> >> ELSE <<>>
        replyTags == IF reference # NoId
                     THEN << <<"e", reference, "", "reply">> >> ELSE <<>>
    IN [content |-> content, created_at |-> now, id |-> NoId,
        kind |-> TEXT_NOTE, pubkey |-> publicKey, sig |-> NoId,
        tags |-> rootTags \o replyTags]

\* undefined, the value of an array item that is not there.
Undefined == <<"undefined">>

\* null.
Null == <<"null">>

\* tag[n - 1]: the n-th item of a tag, undefined when the tag is shorter.
Item(tag, n) == IF n <= Len(tag) THEN tag[n] ELSE Undefined

\* tags.find(tag => tag.length > 0 && tag[0] === 'e' && tag[last] === marker)
FindMarked(tags, marker) ==
    LET hits == {k \in DOMAIN tags :
                    /\ Len(tags[k]) > 0
                    /\ tags[k][1] = "e"
                    /\ tags[k][Len(tags[k])] = marker}
    IN IF hits = {} THEN NoId
       ELSE Item(tags[CHOOSE k \in hits : \A m \in hits : k <= m], 2)

\* tags.find(tag => tag.length > 0 && tag[0] === 'p'), lines 306-309: the
\* second item of the first 'p' tag (undefined when the tag has one item
\* only), or nothing.
FindMention(tags) ==
    LET hits == {k \in DOMAIN tags : Len(tags[k]) > 0 /\ tags[k][1] = "p"}
    IN IF hits = {} THEN NoId
       ELSE Item(tags[CHOOSE k \in hits : \A m \in hits : k <= m], 2)

\* Lines 291-311.  A field the code leaves unset is NoId here.
eventToPost(ev) ==
    [id |-> ev.id, author |-> ev.pubkey, content |-> ev.content,
     createdAt |-> ev.created_at,
     rootReference |-> FindMarked(ev.tags, "root"),
     reference |-> FindMarked(ev.tags, "reply"),
     mentionTo |-> FindMention(ev.tags)]

\* Mutant of ThreadTooShort: a single post passes the length check.
ThreadTooShortOffByOne(p) == Len(p) < 1

\* Line 467.
ThreadTooShort(p) == Len(p) < 2

\* Line 476: sendPost(text, firstPost.id).
FirstReplyRefs(first) == [root |-> first.id, reply |-> NoId]

\* Line 481: sendPost(text, "", lastPost.id).
LaterReplyRefs(last) == [root |-> NoId, reply |-> last.id]

\* Mutant of SendEventAwaited: relay.sendEvent is not awaited.
SendEventNotAwaited == TRUE

\* Line 449: await relay.sendEvent(event); the loop goes on when it settled.
SendEventAwaited == inFlight = {}

\* sendPost up to its first await (line 444): the event is built.
EnterSendPost(content, refs) ==
    \E now \in clock..MaxTime :
       /\ clock' = now
       /\ event' = BuildEvent(content, refs.root, refs.reply, now)
       /\ sendPc' = "calculateId"
       /\ relayIdx' = 0
       /\ postNo' = postNo + 1
       /\ pubLog' = Append(pubLog, [op |-> "build", k |-> postNo + 1, r |-> 0])

\* Lines 466-468: the call, the length check, the shift, and sendTextPost
\* up to its first await.
SendThreadPost ==
    /\ threadPc = "idle"
    /\ \E n \in 0..MaxPosts :
          LET arg == [k \in 1..n |-> Text(k)]
          IN /\ threadArg' = arg
             /\ IF ThreadTooShort(arg)
                THEN /\ thrown' = "At least 2 posts required"
                     /\ threadPc' = "thrown"
                     /\ UNCHANGED <<posts, clock, event, sendPc, relayIdx,
                                    postNo, pubLog>>
                ELSE /\ thrown' = ""
                     /\ posts' = Tail(arg)
                     /\ threadPc' = "first"
                     /\ EnterSendPost(Head(arg), [root |-> NoId, reply |-> NoId])
    /\ UNCHANGED <<appVars, relayInstances, muxVars, replyVars, privateKey,
                   publicKey, threadI, firstPost, lastPost, inFlight, posted>>

\* Mutant of WithId: the id is the hash of the event without its tags.
WithIdOfUntagged(ev) ==
    [ev EXCEPT !.id = calculateId([ev EXCEPT !.tags = <<>>])]

\* Line 444: the id is computed from the event as it is after lines 427-442
\* pushed the tags, and stored in it.
WithId(ev) == [ev EXCEPT !.id = calculateId(ev)]

\* Line 444: event.id = await this.calculateId(event).
CalculateId ==
    /\ sendPc = "calculateId"
    /\ event' = WithId(event)
    /\ sendPc' = "signId"
    /\ pubLog' = Append(pubLog, [op |-> "id", k |-> postNo, r |-> 0])
    /\ UNCHANGED <<appVars, relayInstances, muxVars, replyVars, privateKey,
                   publicKey, clock, threadArg, posts, threadPc, threadI, firstPost,
                   lastPost, thrown, relayIdx, inFlight, postNo, posted>>

\* Line 445: event.sig = ...(await this.signId(event.id)); then the loop over
\* the sessions starts.
SignId ==
    /\ sendPc = "signId"
    /\ event' = [event EXCEPT !.sig = signId(event.id)]
    /\ sendPc' = "relays"
    /\ relayIdx' = 1
    /\ pubLog' = Append(pubLog, [op |-> "sign", k |-> postNo, r |-> 0])
    /\ UNCHANGED <<appVars, relayInstances, muxVars, replyVars, privateKey,
                   publicKey, clock, threadArg, posts, threadPc, threadI, firstPost,
                   lastPost, thrown, inFlight, postNo, posted>>

\* Lines 446-449: relay.sendEvent(event) on the next session.
SendEventStart ==
    /\ sendPc = "relays"
    /\ relayIdx <= Len(relayInstances)
    /\ SendEventAwaited
    /\ inFlight' = inFlight \cup {[k |-> postNo, r |-> relayIdx, ev |-> event]}
    /\ relayIdx' = relayIdx + 1
    /\ pubLog' = Append(pubLog, [op |-> "send", k |-> postNo, r |-> relayIdx])
    /\ UNCHANGED <<appVars, relayInstances, muxVars, replyVars, privateKey,
                   publicKey, clock, threadArg, posts, threadPc, threadI, firstPost,
                   lastPost, thrown, event, sendPc, postNo, posted>>

\* What relay.sendEvent (relay.ts) can settle with: the relay accepts the
\* event and the call resolves, or the relay rejects it and the call
\* rejects with the relay's reason string.
SendOutcomes == {"resolved", "rejected"}

\* Mutant of CatchSendError: the rejection leaves sendPost and its caller.
RethrowSendError(err) ==
    /\ sendPc' = "none"
    /\ thrown' = "Send event error"
    /\ threadPc' = IF threadPc \in {"first", "loop"} THEN "thrown"
                   ELSE threadPc
    /\ replyPc' = IF replyPc \in {"sending", "sendingText"} THEN "thrown"
                  ELSE replyPc

\* Lines 450-452: the rejection is caught and line 451 writes err.message
\* to the console; the loop over the sessions goes on.  Reading err.message
\* of undefined or null would throw a TypeError inside the catch, and
\* sendPost and the publish call that awaits it would reject with it; the
\* reason string of SendOutcomes has properties, so that branch is not taken.
CatchSendError(err) ==
    IF err \in {Undefined, Null}
    THEN /\ sendPc' = "none"
         /\ thrown' = "TypeError"
         /\ threadPc' = IF threadPc \in {"first", "loop"} THEN "thrown"
                        ELSE threadPc
         /\ replyPc' = IF replyPc \in {"sending", "sendingText"} THEN "thrown"
                       ELSE replyPc
    ELSE UNCHANGED <<sendPc, threadPc, thrown, replyPc>>

\* relay.sendEvent (relay.ts) settles: line 449 goes on, or the catch of
\* lines 450-452 runs.
SendEventSettle ==
    /\ \E call \in inFlight, outcome \in SendOutcomes :
          /\ inFlight' = inFlight \ {call}
          /\ pubLog' = Append(pubLog,
                           [op |-> IF outcome = "resolved" THEN "sent"
                                   ELSE "failed",
                            k |-> call.k, r |-> call.r])
          /\ IF outcome = "resolved"
             THEN UNCHANGED <<sendPc, threadPc, thrown, replyPc>>
             ELSE CatchSendError(outcome)
    /\ UNCHANGED <<appVars, relayInstances, muxVars, parentPost, replyPost,
                   privateKey, publicKey, clock, threadArg, posts, threadI,
                   firstPost, lastPost, event, relayIdx, postNo, posted>>

\* Lines 454-455 of a sendPost that sendThreadPost called, then the caller's
\* continuation: lines 468-476 after the first post, lines 470-483 after a
\* follow-up, up to the next await.  sendPost always returns a post, so the
\* throws of lines 474 and 479 are never taken.
SendPostReturn ==
    /\ threadPc \in {"first", "loop"}
    /\ sendPc = "relays"
    /\ relayIdx > Len(relayInstances)
    /\ SendEventAwaited
    /\ LET eventPost == eventToPost(event)
           i == IF threadPc = "first" THEN 0 ELSE threadI + 1
       IN /\ posted' = Append(posted, event)
          /\ firstPost' = IF threadPc = "first" THEN eventPost ELSE firstPost
          /\ lastPost' = IF threadPc = "first" THEN NoPost ELSE eventPost
          /\ threadI' = i
          /\ IF i < Len(posts)
             THEN /\ threadPc' = "loop"
                  /\ EnterSendPost(posts[i + 1],
                        IF i = 0 THEN FirstReplyRefs(firstPost')
                        ELSE LaterReplyRefs(lastPost'))
             ELSE /\ threadPc' = "returned"
                  /\ sendPc' = "none"
                  /\ event' = NoNostrEvent
                  /\ pubLog' = Append(pubLog, [op |-> "return", k |-> postNo, r |-> 0])
                  /\ UNCHANGED <<clock, relayIdx, postNo>>
    /\ UNCHANGED <<appVars, relayInstances, muxVars, replyVars, privateKey,
                   publicKey, threadArg, posts, thrown, inFlight>>

\* filter() has not been called.
MuxIdle ==
    /\ unique = TRUE
    /\ relayIterators = <<>>
    /\ indexedPromises = <<>>
    /\ yieldedEventIds = <<>>
    /\ indexResult = NoResult
    /\ raceWinner = 0
    /\ genPc = "unused"
    /\ merged = <<>>
    /\ handled = <<>>
    /\ produced = <<>>
    /\ exhausted = {}

\* Lines 105-114: the state after nostr.privateKey = NOSTR_PRIVATE_KEY
\* (main.ts line 79).
KeysSet ==
    /\ privateKey = "sk1"
    /\ publicKey = getPublicKey(privateKey)

\* The client after connect(): identity set, some endpoints connected.
ThreadInit ==
    /\ relayInstances \in ConnectedSets
    /\ KeysSet
    /\ PubIdle
    /\ MuxIdle
    /\ AppIdle

ThreadNext ==
    \/ SendThreadPost
    \/ CalculateId
    \/ SignId
    \/ SendEventStart
    \/ SendEventSettle
    \/ SendPostReturn

ThreadSpec == ThreadInit /\ [][ThreadNext]_vars

(* ---------------- publishing: sendReplyPost, sendTextPost -------------- *)

\* The id of a post received from a relay.
ReceivedId(k) == <<"id", k>>

\* The posts a caller can hold (interface NostrPost, lines 45-53), as
\* globalFeed, getPosts or a publish call return them: a root post has no
\* reference, any other post has a root reference, a reference or both, to
\* posts other than itself.  sendReplyPost does not read mentionTo, which is
\* left unset here.
ParentPosts ==
    {p \in [id : {ReceivedId(k) : k \in EventIds},
            author : {"pk1", "pk2"},
            content : {Text(0)},
            createdAt : {0},
            rootReference : {NoId} \cup {ReceivedId(k) : k \in EventIds},
            reference : {NoId} \cup {ReceivedId(k) : k \in EventIds},
            mentionTo : {NoId}] :
        p.rootReference # p.id /\ p.reference # p.id}

\* Line 463: the references sendReplyPost hands to sendPost.
ReplyRefs(post) == [root |-> post.rootReference, reply |-> post.reference]

\* Lines 462-463: the call, and sendPost up to its first await.
SendReplyPost ==
    /\ replyPc = "idle"
    /\ sendPc = "none"
    /\ \E post \in ParentPosts :
          /\ parentPost' = post
          /\ EnterSendPost(Text(1), ReplyRefs(post))
    /\ replyPc' = "sending"
    /\ UNCHANGED <<appVars, relayInstances, muxVars, privateKey, publicKey,
                   threadArg, posts, threadPc, threadI, firstPost, lastPost,
                   thrown, inFlight, posted, replyPost>>

\* Lines 458-460: sendTextPost(content) called on its own, and sendPost up
\* to its first await.
SendTextPost ==
    /\ replyPc = "idle"
    /\ sendPc = "none"
    /\ EnterSendPost(Text(1), [root |-> NoId, reply |-> NoId])
    /\ replyPc' = "sendingText"
    /\ UNCHANGED <<appVars, relayInstances, muxVars, privateKey, publicKey,
                   threadArg, posts, threadPc, threadI, firstPost, lastPost,
                   thrown, inFlight, posted, parentPost, replyPost>>

\* Lines 454-455 of the sendPost that sendTextPost called, and line 459:
\* the post of the event is returned to the caller.
TextReturn ==
    /\ replyPc = "sendingText"
    /\ sendPc = "relays"
    /\ relayIdx > Len(relayInstances)
    /\ SendEventAwaited
    /\ posted' = Append(posted, event)
    /\ replyPost' = eventToPost(event)
    /\ replyPc' = "returnedText"
    /\ sendPc' = "none"
    /\ event' = NoNostrEvent
    /\ pubLog' = Append(pubLog, [op |-> "return", k |-> postNo, r |-> 0])
    /\ UNCHANGED <<appVars, relayInstances, muxVars, privateKey, publicKey,
                   clock, threadArg, posts, threadPc, threadI, firstPost,
                   lastPost, thrown, relayIdx, inFlight, postNo, parentPost>>

\* Lines 454-455 of the sendPost that sendReplyPost called, and line 463:
\* the post of the event is returned to the caller.
ReplyReturn ==
    /\ replyPc = "sending"
    /\ sendPc = "relays"
    /\ relayIdx > Len(relayInstances)
    /\ SendEventAwaited
    /\ posted' = Append(posted, event)
    /\ replyPost' = eventToPost(event)
    /\ replyPc' = "returned"
    /\ sendPc' = "none"
    /\ event' = NoNostrEvent
    /\ pubLog' = Append(pubLog, [op |-> "return", k |-> postNo, r |-> 0])
    /\ UNCHANGED <<appVars, relayInstances, muxVars, privateKey, publicKey,
                   clock, threadArg, posts, threadPc, threadI, firstPost,
                   lastPost, thrown, relayIdx, inFlight, postNo, parentPost>>

\* The client after connect(): identity set, some endpoints connected.
ReplyInit ==
    /\ relayInstances \in ConnectedSets
    /\ KeysSet
    /\ PubIdle
    /\ MuxIdle
    /\ AppIdle

ReplyNext ==
    \/ SendReplyPost
    \/ SendTextPost
    \/ CalculateId
    \/ SignId
    \/ SendEventStart
    \/ SendEventSettle
    \/ ReplyReturn
    \/ TextReturn

ReplySpec == ReplyInit /\ [][ReplyNext]_vars

(* ------------- sessions: connect, disconnect, reconnect ---------------- *)

\* Mutant of PushIfConnected: the session is pushed whatever connect did.
PushAlways(insts, e, ok) == Append(insts, endpoints[e])

\* Lines 130-134: relay.connect() is awaited inside the try; the push of line
\* 131 is reached only when it did not throw.
PushIfConnected(insts, e, ok) ==
    IF ok THEN Append(insts, endpoints[e]) ELSE insts

\* Lines 123-130: the call, the check of the list, and the first pass of the
\* loop up to await relay.connect().  The result of an earlier batch is the
\* caller's and is kept no longer.
Connect ==
    /\ connPc \in {"idle", "returned", "thrown"}
    /\ batchPc # "waiting"
    /\ Len(relayInstances) + Len(endpoints) <= MaxSessions
    /\ connBase' = Len(relayInstances)
    /\ batchOp' = "none" /\ batchPc' = "idle" /\ outcomes' = <<>>
    /\ IF Len(endpoints) = 0
       THEN /\ connPc' = "thrown"
            /\ connIdx' = 0
            /\ connLog' = <<>>
       ELSE /\ connPc' = "connecting"
            /\ connIdx' = 1
            /\ connLog' = << [op |-> "attempt", e |-> 1] >>
    /\ UNCHANGED <<relayInstances, muxVars, pubVars, endpoints, keyVars,
                   profVars, pollVars>>

\* Lines 130-135: relay.connect() (relay.ts) resolves and the session is
\* pushed, or it rejects and relayError is emitted; then the next pass of the
\* loop up to its await, or the end of connect().
ConnectSettle ==
    /\ connPc = "connecting"
    /\ \E ok \in BOOLEAN :
          LET logged == Append(connLog,
                           [op |-> IF ok THEN "connected" ELSE "relayError",
                            e |-> connIdx])
          IN /\ relayInstances' = PushIfConnected(relayInstances, connIdx, ok)
             /\ IF connIdx < Len(endpoints)
                THEN /\ connIdx' = connIdx + 1
                     /\ connLog' = Append(logged,
                                       [op |-> "attempt", e |-> connIdx + 1])
                     /\ UNCHANGED connPc
                ELSE /\ connPc' = "returned"
                     /\ connLog' = logged
                     /\ UNCHANGED connIdx
    /\ UNCHANGED <<muxVars, pubVars, endpoints, connBase, batchOp, batchPc,
                   outcomes, keyVars, profVars, pollVars>>

\* Lines 226-236: relayInstances.map calls relay.disconnect() (or
\* relay.connect()) on every session and hands the promises to allSettled.
BatchStart ==
    /\ connPc # "connecting"
    /\ batchPc # "waiting"
    /\ \E op \in {"disconnect", "reconnect"} : batchOp' = op
    /\ outcomes' = [j \in 1..Len(relayInstances) |-> "pending"]
    /\ batchPc' = "waiting"
    /\ UNCHANGED <<relayInstances, muxVars, pubVars, endpoints, connPc,
                   connIdx, connBase, connLog, keyVars, profVars, pollVars>>

\* relay.disconnect() or relay.connect() of one session (relay.ts) settles.
BatchSettle ==
    /\ batchPc = "waiting"
    /\ \E j \in DOMAIN outcomes, ok \in BOOLEAN :
          /\ outcomes[j] = "pending"
          /\ outcomes' = [outcomes EXCEPT
                             ![j] = IF ok THEN "fulfilled" ELSE "rejected"]
    /\ UNCHANGED <<relayInstances, muxVars, pubVars, endpoints, connPc,
                   connIdx, connBase, connLog, batchOp, batchPc, keyVars,
                   profVars, pollVars>>

\* Mutant of AllSettled: Promise.all, which rejects with the first rejection.
PromiseAll(outs) ==
    IF \E j \in DOMAIN outs : outs[j] = "rejected"
    THEN batchPc' = "rejected"
    ELSE /\ \A j \in DOMAIN outs : outs[j] # "pending"
         /\ batchPc' = "resolved"

\* Promise.allSettled, lines 227 and 233: fulfilled once every promise has
\* settled, with the outcomes in session order.
AllSettled(outs) ==
    /\ \A j \in DOMAIN outs : outs[j] # "pending"
    /\ batchPc' = "resolved"

\* The promise returned by disconnect() or reconnect() settles.
BatchResolve ==
    /\ batchPc = "waiting"
    /\ AllSettled(outcomes)
    /\ UNCHANGED <<relayInstances, muxVars, pubVars, endpoints, connPc,
                   connIdx, connBase, connLog, batchOp, outcomes, keyVars,
                   profVars, pollVars>>

\* The constructed client (lines 81-82) with an identity, after main.ts has
\* filled relayList from the RELAYS setting (main.ts lines 81-88).
ConnInit ==
    /\ relayInstances = <<>>
    /\ endpoints \in {SubSeq(relayList, 1, n) : n \in 0..Len(relayList)}
    /\ connPc = "idle"
    /\ connIdx = 0
    /\ connBase = 0
    /\ connLog = <<>>
    /\ batchOp = "none"
    /\ batchPc = "idle"
    /\ outcomes = <<>>
    /\ KeyIdle
    /\ ProfIdle
    /\ PollIdle
    /\ KeysSet
    /\ PubIdle
    /\ MuxIdle

ConnNext ==
    \/ Connect
    \/ ConnectSettle
    \/ BatchStart
    \/ BatchSettle
    \/ BatchResolve

ConnSpec == ConnInit /\ [][ConnNext]_vars

(* --------------- identity: the privateKey and publicKey setters -------- *)

\* undefined, the value of _privateKey and _publicKey before any assignment;
\* also the empty string, which line 110 takes for no value.
NoKey == ""

\* What the setters are given: a key in hex or in its bech32 form, a string
\* that is no key ("zz"), a bech32 string that does not decode.
PrivateInputs == {"sk1", "sk2", "nsec1sk1", "nsec1sk2", "", "zz", "nsec1x"}

PublicInputs == {"pk1", "pk2", "npub1pk1", "npub1pk2", "npub1x"}

\* value.substring(0, 4) === prefix, lines 106 and 117.
HasPrefix(value, prefix) ==
    CASE prefix = "nsec" -> value \in {"nsec1sk1", "nsec1sk2", "nsec1x"}
      [] prefix = "npub" -> value \in {"npub1pk1", "npub1pk2", "npub1x"}
      [] OTHER -> FALSE

\* Lines 92-97: the hex form of the bytes in a bech32 string; bech32.decode
\* throws for a string that is not bech32.
getKeyFromNip19(key) ==
    CASE key = "nsec1sk1" -> "sk1"
      [] key = "nsec1sk2" -> "sk2"
      [] key = "npub1pk1" -> "pk1"
      [] key = "npub1pk2" -> "pk2"
      [] OTHER -> Throws

\* Lines 105-114: set privateKey(value).  Line 107 throws before anything is
\* stored; line 111 stores the private key before line 112 derives the
\* public key, so when the derivation throws the new private key stays with
\* the old public key.
SetPrivateKey ==
    /\ Len(keyLog) < MaxKeyOps
    /\ \E value \in PrivateInputs :
          LET hex == IF HasPrefix(value, "nsec") THEN getKeyFromNip19(value)
                     ELSE value
              threw == hex = Throws \/ (hex # NoKey /\ getPublicKey(hex) = Throws)
          IN /\ CASE hex = Throws \/ hex = NoKey ->
                     UNCHANGED <<privateKey, publicKey>>
                  [] getPublicKey(hex) = Throws ->
                     /\ privateKey' = hex
                     /\ UNCHANGED publicKey
                  [] OTHER ->
                     /\ privateKey' = hex
                     /\ publicKey' = getPublicKey(hex)
             /\ keyLog' = Append(keyLog, [op |-> "privateKey", value |-> value,
                                          threw |-> threw])
    /\ UNCHANGED <<relayInstances, muxVars, connVars, profVars, pollVars, clock,
                   threadArg, posts, threadPc, threadI, firstPost, lastPost,
                   thrown, event, sendPc, relayIdx, inFlight, postNo, posted,
                   pubLog, replyVars>>

\* Lines 116-121: set publicKey(value); line 118 throws before anything is
\* stored, and a value without the prefix is stored as it is.
SetPublicKey ==
    /\ Len(keyLog) < MaxKeyOps
    /\ \E value \in PublicInputs :
          LET hex == IF HasPrefix(value, "npub") THEN getKeyFromNip19(value)
                     ELSE value
          IN /\ IF hex = Throws THEN UNCHANGED publicKey
                ELSE publicKey' = hex
             /\ keyLog' = Append(keyLog, [op |-> "publicKey", value |-> value,
                                          threw |-> hex = Throws])
    /\ UNCHANGED <<relayInstances, muxVars, connVars, profVars, pollVars,
                   privateKey, clock, threadArg, posts, threadPc, threadI,
                   firstPost, lastPost, thrown, event, sendPc, relayIdx,
                   inFlight, postNo, posted, pubLog, replyVars>>

\* The constructed client, lines 81-89: no key, no session.
KeyInit ==
    /\ privateKey = NoKey
    /\ publicKey = NoKey
    /\ keyLog = <<>>
    /\ relayInstances = <<>>
    /\ ConnIdle
    /\ ProfIdle
    /\ PollIdle
    /\ PubIdle
    /\ MuxIdle

KeyNext ==
    \/ SetPrivateKey
    \/ SetPublicKey

KeySpec == KeyInit /\ [][KeyNext]_vars

(* ------------------------ profile: getProfile -------------------------- *)

\* All sequences over S of length at most n.
SeqsUpTo(S, n) == UNION {[1..k -> S] : k \in 0..n}

\* The content of a received event: JSON text, or text that is no JSON.
MetaContents == {"{name:a}", "{name:b}", "not json"}

ContactContents == {"{relay:rw}", ""}

\* A kind 0 event as a relay sends it; valid is what schnorr.verify(sig, id,
\* pubkey) gives for it.
MetaEvents ==
    [created_at : 0..MaxStamp, content : MetaContents, valid : BOOLEAN]

\* A kind 3 event of the profile's author; its tags name one followed key,
\* or hold a 'p' tag without a key.
ContactEvents ==
    [created_at : 0..MaxStamp, content : ContactContents, valid : BOOLEAN,
     tags : { << <<"p", "pk2">> >>, << <<"p">> >> }]

\* A kind 3 event of somebody who follows the profile's author.
FollowerEvents == [pubkey : {"pk1", "pk2"}, valid : BOOLEAN]

\* Lines 140-142: schnorr.verify is secp.ts.
isValidEvent(ev) == ev.valid

\* JSON.parse(content) returns (TRUE) or throws a SyntaxError (FALSE).
JSONParses(content) == content \in {"{name:a}", "{name:b}", "{relay:rw}"}

\* data.name of the parsed content; undefined, so absent, without a name.
ParsedName(content) ==
    CASE content = "{name:a}" -> <<"a">>
      [] content = "{name:b}" -> <<"b">>
      [] OTHER -> <<>>

\* Lines 260-266: one entry per key of the parsed content.
ParsedRelays(content) ==
    CASE content = "{relay:rw}" ->
            << [url |-> "relay", read |-> TRUE, write |-> TRUE] >>
      [] OTHER -> <<>>

\* Line 248 (and 369): event.created_at > createdAt.
Newer(ev, createdAt) == ev.created_at > createdAt

\* Lines 246-255: the loop over the events of getProfileEvents; threw tells
\* that JSON.parse of line 249 threw, which ends getProfile.
FoldMetadata(evs) ==
    LET acc[n \in 0..Len(evs)] ==
            IF n = 0 THEN [name |-> <<>>, createdAt |-> 0, threw |-> FALSE]
            ELSE IF acc[n - 1].threw \/ ~Newer(evs[n], acc[n - 1].createdAt)
                 THEN acc[n - 1]
                 ELSE IF JSONParses(evs[n].content)
                      THEN [name |-> ParsedName(evs[n].content),
                            createdAt |-> evs[n].created_at, threw |-> FALSE]
                      ELSE [acc[n - 1] EXCEPT !.threw = TRUE]
    IN acc[Len(evs)]

\* Lines 368-376: the event getFollowingInfo returns (none: <<>>).
LatestContact(evs) ==
    LET acc[n \in 0..Len(evs)] ==
            IF n = 0 THEN [event |-> <<>>, createdAt |-> 0]
            ELSE IF Newer(evs[n], acc[n - 1].createdAt)
                 THEN [event |-> <<evs[n]>>, createdAt |-> evs[n].created_at]
                 ELSE acc[n - 1]
    IN acc[Len(evs)].event

\* Lines 268-276: the second items of the 'p' tags, undefined for a tag
\* that has one item only.
FollowedKeys(tags) ==
    LET acc[n \in 0..Len(tags)] ==
            IF n = 0 THEN <<>>
            ELSE IF Len(tags[n]) > 0 /\ tags[n][1] = "p"
                 THEN Append(acc[n - 1], Item(tags[n], 2)) ELSE acc[n - 1]
    IN acc[Len(tags)]

\* Lines 244-255: getProfileEvents has returned evs; the loop over them.
AfterProfileEvents(evs) ==
    LET latest == FoldMetadata(evs)
    IN IF latest.threw
       THEN /\ profPc' = "thrown"
            /\ UNCHANGED profileInfo
       ELSE /\ profPc' = "metadata"
            /\ profileInfo' = [profileInfo EXCEPT !.name = latest.name]

\* Lines 238-244 and 146-147: the call, up to the first await.
GetProfile ==
    /\ profPc = "idle"
    /\ metaData' = <<>>
    /\ profEvents' = <<>>
    /\ IF Len(relayInstances) = 0
       THEN /\ profIdx' = 0
            /\ AfterProfileEvents(<<>>)
       ELSE /\ profIdx' = 1
            /\ profPc' = "subscribe"
            /\ UNCHANGED profileInfo
    /\ UNCHANGED <<relayInstances, muxVars, pubVars, connVars, keyVars,
                   pollVars, followingInfo, followerEvents>>

\* What relay.subscribePromise(filters) resolves with: no event, one event,
\* or, from a relay that does not keep to the filter's limit 1, one more.
MetaAnswers ==
    SeqsUpTo(MetaEvents, 1) \cup
    {<<ev, [created_at |-> MaxStamp, content |-> "{name:b}", valid |-> TRUE]>> :
        ev \in MetaEvents}

\* Lines 146-147 and 244-255: the loop of getProfileEvents goes on to the
\* next relay, or getProfileEvents returns events to getProfile.
NextRelay(events) ==
    IF profIdx < Len(relayInstances)
    THEN /\ profIdx' = profIdx + 1
         /\ profPc' = "subscribe"
         /\ UNCHANGED profileInfo
    ELSE /\ UNCHANGED profIdx
         /\ AfterProfileEvents(events)

\* Lines 147-148: relay.subscribePromise(filters) settles.  A rejection
\* leaves getProfileEvents and getProfile as their rejection.  Of the data
\* only data[0] is looked at: with it isValidEvent is called and awaited;
\* without data the loop goes on.
SubscribeSettle ==
    /\ profPc = "subscribe"
    /\ \/ /\ profPc' = "rejected"
          /\ UNCHANGED <<profIdx, metaData, profEvents, profileInfo>>
       \/ \E data \in MetaAnswers :
             /\ metaData' = Append(metaData, data)
             /\ UNCHANGED profEvents
             /\ IF Len(data) > 0
                THEN /\ profPc' = "verify"
                     /\ UNCHANGED <<profIdx, profileInfo>>
                ELSE NextRelay(profEvents)
    /\ UNCHANGED <<relayInstances, muxVars, pubVars, connVars, keyVars,
                   pollVars, followingInfo, followerEvents>>

\* Lines 148-150: isValidEvent(data[0]) settles; data[0] is kept if it
\* verifies, and the loop goes on.
VerifySettle ==
    /\ profPc = "verify"
    /\ LET data == metaData[Len(metaData)]
           events == IF isValidEvent(data[1]) THEN Append(profEvents, data[1])
                     ELSE profEvents
       IN /\ profEvents' = events
          /\ NextRelay(events)
    /\ UNCHANGED <<relayInstances, muxVars, pubVars, connVars, keyVars,
                   pollVars, metaData, followingInfo, followerEvents>>

\* Lines 256 and 362-367: getFollowingInfo is called and runs up to its
\* await.  getProfileEvents' events are read no more.
CallGetFollowingInfo ==
    /\ profPc = "metadata"
    /\ profPc' = "following"
    /\ metaData' = <<>>
    /\ profEvents' = <<>>
    /\ UNCHANGED <<relayInstances, muxVars, pubVars, connVars, keyVars,
                   pollVars, profIdx, profileInfo, followingInfo,
                   followerEvents>>

\* Lines 256-278 and 367-377: filter(filters).collect() has returned the
\* merged contact events; the newest is taken, its content parsed, and
\* getFollowerInfo called up to its await.
FollowingCollected ==
    /\ profPc = "following"
    /\ \E evs \in SeqsUpTo(ContactEvents, MaxCollected) :
          LET info == LatestContact(evs)
          IN /\ relayInstances = <<>> => evs = <<>>
             /\ followingInfo' = info
             /\ IF info = <<>>
                THEN /\ profPc' = "followers"
                     /\ UNCHANGED profileInfo
                ELSE IF JSONParses(info[1].content)
                THEN /\ profPc' = "followers"
                     /\ profileInfo' =
                           [profileInfo EXCEPT
                              !.relays = <<ParsedRelays(info[1].content)>>,
                              !.following = <<FollowedKeys(info[1].tags)>>]
                ELSE /\ profPc' = "thrown"
                     /\ UNCHANGED profileInfo
    /\ UNCHANGED <<relayInstances, muxVars, pubVars, connVars, keyVars,
                   pollVars, profIdx, metaData, profEvents, followerEvents>>

\* Lines 278-288 and 348-359: filter(filters).collect() has returned the
\* merged follower events; their authors become profileInfo.follower and
\* getProfile returns.
FollowersCollected ==
    /\ profPc = "followers"
    /\ \E evs \in SeqsUpTo(FollowerEvents, MaxCollected) :
          /\ relayInstances = <<>> => evs = <<>>
          /\ followerEvents' = evs
          /\ profileInfo' =
                [profileInfo EXCEPT
                   !.follower = << [k \in DOMAIN evs |-> evs[k].pubkey] >>]
    /\ profPc' = "returned"
    /\ UNCHANGED <<relayInstances, muxVars, pubVars, connVars, keyVars,
                   pollVars, profIdx, metaData, profEvents, followingInfo>>

\* Lines 353 and 367, with line 196: a relay's iterator rejects while
\* collect() consumes the merged sequence; the rejection leaves collect(),
\* getFollowingInfo or getFollowerInfo, and getProfile.
CollectRejects ==
    /\ profPc \in {"following", "followers"}
    /\ relayInstances # <<>>
    /\ profPc' = "rejected"
    /\ UNCHANGED <<relayInstances, muxVars, pubVars, connVars, keyVars,
                   pollVars, profIdx, metaData, profEvents, profileInfo,
                   followingInfo, followerEvents>>

\* The client after connect(), before getOtherProfile(publicKey).
ProfInit ==
    /\ relayInstances \in {SubSeq(relayList, 1, n) : n \in 0..Len(relayList)}
    /\ ProfIdle
    /\ ConnIdle
    /\ KeyIdle
    /\ PollIdle
    /\ KeysSet
    /\ PubIdle
    /\ MuxIdle

ProfNext ==
    \/ GetProfile
    \/ SubscribeSettle
    \/ VerifySettle
    \/ CollectRejects
    \/ CallGetFollowingInfo
    \/ FollowingCollected
    \/ FollowersCollected

ProfSpec == ProfInit /\ [][ProfNext]_vars

(* ------------------- the bot: doIt and checkMints ---------------------- *)

\* Mint.state (src/Mint.ts line 10).
MintStates == {"OK", "UNKNOWN", "ERROR"}

MintIds == 1..MaxMints

\* A body of the audit API's answer, or a content of mints.json, that is
\* JSON but no array: one without a length of 0 (an object, a number), one
\* with it (the empty string, {"length": 0}); null, which has no
\* properties to read, is the third.
NotAnArray == <<"object">>

EmptyNoArray == <<"">>

IsArray(value) == value \notin {NotAnArray, EmptyNoArray, Null}

\* main.ts line 153: oldMints.length === 0.
LengthIsZero(value) == value = EmptyNoArray \/ (IsArray(value) /\ Len(value) = 0)

\* main.ts lines 127-147: the mints whose state is not the state oldMints
\* has for them.
getChangedMints(mints) ==
    {m \in DOMAIN mints :
        m \notin DOMAIN oldMints \/ mints[m] # oldMints[m]}

\* A text of a thread: what it reports, the run of doIt that built it, and
\* the changed mints it lists.
Message(kind, c, changes) == [kind |-> kind, run |-> c, changes |-> changes]

\* No run of doIt is between its start and its end.
NoRunActive == \A c \in Runs : pollPc[c] \in {"unstarted", "done"}

\* The state of some mint changes at the audit service, between the runs.
ApiChange ==
    /\ NoRunActive
    /\ \E m \in MintIds, st \in MintStates :
          /\ st # mintState[m]
          /\ mintState' = [mintState EXCEPT ![m] = st]
    /\ UNCHANGED <<relayInstances, muxVars, pubVars, connVars, keyVars,
                   profVars, oldMints, pollPc, cycle, atStart,
                   returned, arrays,
                   threadMessages, pushTarget, postsArg, postsI, published,
                   caught>>

\* main.ts lines 188-194 and 214-217: main() or the interval timer starts
\* doIt, which runs up to await getSwaps().  The timer does not wait for
\* the runs started before.
DoIt ==
    /\ cycle < MaxCycles
    /\ cycle' = cycle + 1
    /\ pollPc' = [pollPc EXCEPT ![cycle + 1] = "getSwaps"]
    /\ atStart' = [atStart EXCEPT
                      ![cycle + 1] = [saved |-> oldMints, mints |-> mintState]]
    /\ UNCHANGED <<relayInstances, muxVars, pubVars, connVars, keyVars,
                   profVars, mintState, oldMints, returned, arrays,
                   threadMessages, pushTarget, postsArg, postsI, published,
                   caught>>

\* main.ts lines 27-35 and 194-203: getSwaps() has settled.  It rejects
\* when the body of the answer is JSON but no array (line 31, sort), which
\* the catch of doIt logs: the run is over.  Resolved, swaps tells whether
\* a swap of the last minute has a state other than OK.  Without one the run
\* is over.  With one, threadMessages is made to refer to a new array (line
\* 201), the swap message is pushed onto it (line 202), and line 203 takes
\* threadMessages.push, the push of that array, before it calls checkMints,
\* which runs up to its fetch.  When getFailedSwapsMessage throws over such
\* a swap (line 53: its created_at is no string), the new array stays
\* empty and the catch of doIt logs the error: the run is over.
GetSwapsSettle ==
    /\ \E c \in Runs,
          swaps \in {"failed", "failedMalformed", "allOK", "rejected"} :
          /\ pollPc[c] = "getSwaps"
          /\ CASE swaps = "failed" ->
                  LET new == Len(arrays) + 1
                  IN /\ arrays' = Append(arrays, << Message("swaps", c, {}) >>)
                     /\ threadMessages' = new
                     /\ pushTarget' = [pushTarget EXCEPT ![c] = new]
                     /\ pollPc' = [pollPc EXCEPT ![c] = "checkMints"]
                     /\ UNCHANGED caught
               [] swaps = "failedMalformed" ->
                  /\ arrays' = Append(arrays, <<>>)
                  /\ threadMessages' = Len(arrays) + 1
                  /\ pollPc' = [pollPc EXCEPT ![c] = "done"]
                  /\ caught' = [caught EXCEPT ![c] = "TypeError"]
                  /\ UNCHANGED pushTarget
               [] swaps = "allOK" ->
                  /\ pollPc' = [pollPc EXCEPT ![c] = "done"]
                  /\ UNCHANGED <<arrays, threadMessages, pushTarget, caught>>
               [] OTHER ->
                  /\ pollPc' = [pollPc EXCEPT ![c] = "done"]
                  /\ caught' = [caught EXCEPT ![c] = "TypeError"]
                  /\ UNCHANGED <<arrays, threadMessages, pushTarget>>
    /\ UNCHANGED <<relayInstances, muxVars, pubVars, connVars, keyVars,
                   profVars, mintState, oldMints, cycle, atStart,
                   returned, postsArg,
                   postsI, published>>

\* main.ts lines 179 and 182: checkMints returns message, which resolves
\* the promise line 203 of doIt waits for.
CheckMintsReturn(c, message) ==
    /\ returned' = [returned EXCEPT ![c] = <<message>>]
    /\ pollPc' = [pollPc EXCEPT ![c] = "push"]

\* main.ts lines 151 and 180-183: the fetch of the mints has settled.
\* Resolved, checkMints reads the body (line 152) and waits for it;
\* rejected, its catch returns the empty message.
FetchSettle ==
    /\ \E c \in Runs, ok \in BOOLEAN :
          /\ pollPc[c] = "checkMints"
          /\ IF ok
             THEN /\ pollPc' = [pollPc EXCEPT ![c] = "json"]
                  /\ UNCHANGED returned
             ELSE CheckMintsReturn(c, Message("", c, {}))
    /\ UNCHANGED <<relayInstances, muxVars, pubVars, connVars, keyVars,
                   profVars, mintState, oldMints, cycle, atStart, arrays,
                   threadMessages, pushTarget, postsArg, postsI, published,
                   caught>>

\* main.ts lines 152-183: response.json() has settled and checkMints runs
\* to its return.  body tells what response.json() gave: nothing (it
\* rejected), JSON that is no array, the mints, or an array without a mint;
\* built tells whether the text of every mint can be built or line 165
\* throws (created_at of one of the mint's swaps in allSwaps is no string);
\* saved tells whether saveMints writes mints.json or throws.  Line 153
\* throws when oldMints is null.  On the first run (oldMints.length === 0)
\* line 155 assigns oldMints before anything else can throw; mints.map
\* (line 158) throws for a body that is no array, and for a mint
\* oldMints.some (line 162) throws when oldMints is none and line 165 may
\* throw; line 177 assigns oldMints before saveMints of line 178.  Whatever
\* is thrown, the catch returns the empty message and oldMints stays as it
\* was when the throw happened.
JsonSettle ==
    /\ \E c \in Runs,
          body \in {"rejected", "object", "empty", "null", "mints",
                    "noMints"},
          built \in BOOLEAN, saved \in BOOLEAN :
          /\ pollPc[c] = "json"
          /\ body = "rejected" => (saved /\ built)
          /\ LET mints == CASE body = "mints" -> mintState
                            [] body = "noMints" -> <<>>
                            [] body = "empty" -> EmptyNoArray
                            [] body = "null" -> Null
                            [] OTHER -> NotAnArray
                 firstRun == LengthIsZero(oldMints)
                 first == IF firstRun THEN mints ELSE oldMints
                 changes == IF firstRun THEN {} ELSE getChangedMints(mints)
             IN CASE body = "rejected" \/ oldMints = Null ->
                     /\ UNCHANGED oldMints
                     /\ CheckMintsReturn(c, Message("", c, {}))
                  [] firstRun /\ ~saved ->
                     /\ oldMints' = first
                     /\ CheckMintsReturn(c, Message("", c, {}))
                  [] \/ ~IsArray(mints)
                     \/ (mints # <<>> /\ (~IsArray(first) \/ ~built)) ->
                     /\ oldMints' = first
                     /\ CheckMintsReturn(c, Message("", c, {}))
                  [] ~saved ->
                     /\ oldMints' = mints
                     /\ CheckMintsReturn(c, Message("", c, {}))
                  [] OTHER ->
                     /\ oldMints' = mints
                     /\ CheckMintsReturn(c, Message("mints", c, changes))
    /\ UNCHANGED <<relayInstances, muxVars, pubVars, connVars, keyVars,
                   profVars, mintState, cycle, atStart, arrays,
                   threadMessages, pushTarget, postsArg, postsI, published,
                   caught>>

\* main.ts lines 203-204: doIt goes on with what checkMints returned; it is
\* pushed onto the array line 203 took push from, and nostr.reconnect() is
\* called.
PushMintsMessage ==
    /\ \E c \in Runs :
          /\ pollPc[c] = "push"
          /\ arrays' = [arrays EXCEPT
                           ![pushTarget[c]] = Append(@, returned[c][1])]
          /\ returned' = [returned EXCEPT ![c] = <<>>]
          /\ pollPc' = [pollPc EXCEPT ![c] = "reconnect"]
    /\ UNCHANGED <<relayInstances, muxVars, pubVars, connVars, keyVars,
                   profVars, mintState, oldMints, cycle, atStart,
                   threadMessages, pushTarget, postsArg, postsI, published,
                   caught>>

\* main.ts lines 204-205: reconnect() has settled (it never rejects) and
\* sendThreadPost is called with the array threadMessages refers to now.
\* With fewer than 2 items it throws (part_001 line 467): the promise doIt
\* waits for at line 205 is rejected.  Else the first item is shifted off
\* that array and sent (part_001 line 468).
ReconnectSettle ==
    /\ \E c \in Runs :
          /\ pollPc[c] = "reconnect"
          /\ LET ref == threadMessages
             IN IF ThreadTooShort(arrays[ref])
                THEN /\ pollPc' = [pollPc EXCEPT ![c] = "tooShort"]
                     /\ UNCHANGED <<arrays, postsArg, published>>
                ELSE /\ arrays' = [arrays EXCEPT ![ref] = Tail(@)]
                     /\ postsArg' = [postsArg EXCEPT ![c] = ref]
                     /\ published' = [published EXCEPT
                                         ![c] = << Head(arrays[ref]) >>]
                     /\ pollPc' = [pollPc EXCEPT ![c] = "first"]
    /\ UNCHANGED <<relayInstances, muxVars, pubVars, connVars, keyVars,
                   profVars, mintState, oldMints, cycle, atStart, returned,
                   threadMessages, pushTarget, postsI, caught>>

\* main.ts lines 205 and 209-211: doIt goes on with the rejection of
\* sendThreadPost; its catch logs the error and the run is over.
ThreadTooShortCaught ==
    /\ \E c \in Runs :
          /\ pollPc[c] = "tooShort"
          /\ caught' = [caught EXCEPT ![c] = "At least 2 posts required"]
          /\ pollPc' = [pollPc EXCEPT ![c] = "done"]
    /\ UNCHANGED <<relayInstances, muxVars, pubVars, connVars, keyVars,
                   profVars, mintState, oldMints, cycle, atStart, returned,
                   arrays, threadMessages, pushTarget, postsArg, postsI,
                   published>>

\* part_001 lines 468-483 and main.ts lines 205-206: a sendPost of the
\* thread has returned.  The loop reads posts.length and posts[i] from the
\* array as it is now: it sends the next item, or ends, and then
\* sendThreadPost returns and doIt calls disconnect().
SendThreadSettle ==
    /\ \E c \in Runs :
          /\ pollPc[c] \in {"first", "loop"}
          /\ LET i == IF pollPc[c] = "first" THEN 0 ELSE postsI[c] + 1
                 items == arrays[postsArg[c]]
             IN IF i < Len(items)
                THEN /\ postsI' = [postsI EXCEPT ![c] = i]
                     /\ published' = [published EXCEPT
                                         ![c] = Append(@, items[i + 1])]
                     /\ pollPc' = [pollPc EXCEPT ![c] = "loop"]
                ELSE /\ pollPc' = [pollPc EXCEPT ![c] = "disconnect"]
                     /\ UNCHANGED <<postsI, published>>
          /\ UNCHANGED caught
    /\ UNCHANGED <<relayInstances, muxVars, pubVars, connVars, keyVars,
                   profVars, mintState, oldMints, cycle, atStart,
                   returned, arrays,
                   threadMessages, pushTarget, postsArg>>

\* main.ts lines 206-208: disconnect() has settled; threadMessages is made
\* to refer to a new empty array and the run is over.
DisconnectSettle ==
    /\ \E c \in Runs :
          /\ pollPc[c] = "disconnect"
          /\ pollPc' = [pollPc EXCEPT ![c] = "done"]
    /\ arrays' = Append(arrays, <<>>)
    /\ threadMessages' = Len(arrays) + 1
    /\ UNCHANGED <<relayInstances, muxVars, pubVars, connVars, keyVars,
                   profVars, mintState, oldMints, cycle, atStart, returned,
                   pushTarget, postsArg, postsI, published, caught>>

\* main.ts lines 99-103: after connect() (here: every endpoint connected)
\* and disconnect(), oldMints is what mints.json holds: nothing yet, the
\* mints of an earlier run, or the body no array that one saved.
PollInit ==
    /\ relayInstances = relayList
    /\ mintState \in [MintIds -> MintStates]
    /\ oldMints \in {<<>>, NotAnArray, EmptyNoArray, Null}
                    \cup [MintIds -> MintStates]
    /\ NoRunYet
    /\ ConnIdle
    /\ KeyIdle
    /\ ProfIdle
    /\ KeysSet
    /\ PubIdle
    /\ MuxIdle

PollNext ==
    \/ ApiChange
    \/ DoIt
    \/ GetSwapsSettle
    \/ FetchSettle
    \/ JsonSettle
    \/ PushMintsMessage
    \/ ReconnectSettle
    \/ ThreadTooShortCaught
    \/ SendThreadSettle
    \/ DisconnectSettle

PollSpec == PollInit /\ [][PollNext]_vars

(* ------------------- claims about the multiplexer ---------------------- *)

\* The entries of h whose identifier occurs at no earlier position of h.
FirstArrivals(h) ==
    LET keep == {k \in DOMAIN h : \A m \in 1..(k - 1) : h[m].id # h[k].id}
        pick[n \in 0..Len(h)] ==
            IF n = 0 THEN <<>>
            ELSE IF n \in keep THEN Append(pick[n - 1], h[n]) ELSE pick[n - 1]
    IN pick[Len(h)]

Iterators == 1..Len(relayInstances)

AllExhausted == exhausted = Iterators

\* C1: with dedup on, the merged sequence is at every moment the sequence of
\* first arrivals of the results taken so far: no identifier is yielded
\* twice and the event yielded for an identifier is the first one taken with
\* it; once the loop has ended every event any source delivered has been
\* taken, so each distinct identifier delivered occurs exactly once.
C1_DedupFirstArrivalWins ==
    unique =>
        /\ merged = FirstArrivals(handled)
        /\ \A a, b \in DOMAIN merged : merged[a].id = merged[b].id => a = b
        /\ genPc = "done" =>
              /\ Len(handled) = TotalProduced
              /\ \A s \in Iterators, q \in 1..EventBudget : q <= produced[s] =>
                    \E k \in DOMAIN handled, m \in DOMAIN merged :
                       /\ handled[k].src = s /\ handled[k].seq = q
                       /\ merged[m].id = handled[k].id

\* C1 witness: a finished dedup run in which two sources delivered the same
\* identifier and the later one was dropped.
C1_Witness ==
    /\ unique /\ genPc = "done"
    /\ \E a, b \in DOMAIN handled :
          /\ a < b
          /\ handled[a].id = handled[b].id
          /\ handled[a].src # handled[b].src
          /\ \E m \in DOMAIN merged : merged[m] = handled[a]
          /\ \A m \in DOMAIN merged : merged[m] # handled[b]

\* C2: with dedup off every result taken is forwarded, and once the loop has
\* ended the merged sequence has as many items as all sources delivered
\* together, repeated identifiers included.
C2_NoDedupForwardsAll ==
    ~unique =>
        /\ merged = handled
        /\ Len(merged) <= TotalProduced
        /\ genPc = "done" => Len(merged) = TotalProduced

\* C2 witness: a finished run without dedup whose merged sequence holds the
\* same identifier from two different sources.
C2_Witness ==
    /\ ~unique /\ genPc = "done"
    /\ \E a, b \in DOMAIN merged :
          a # b /\ merged[a].id = merged[b].id /\ merged[a].src # merged[b].src

\* C3: the loop ends only when every source has reported exhaustion and the
\* active list is empty, nothing is yielded after the end, and once every
\* source has reported exhaustion the sequence does end.
C3_TerminatesWhenAllExhausted ==
    /\ [](genPc = "done" => (AllExhausted /\ relayIterators = <<>>))
    /\ [][genPc = "done" => (merged' = merged /\ genPc' = "done")]_vars
    /\ ((genPc # "idle" /\ AllExhausted) ~> (genPc \in {"done", "closed"}))

\* C3 witness: the loop has ended after three sources reported exhaustion, one
\* of them only after an event of another source had been yielded.
C3_Witness ==
    /\ genPc = "done"
    /\ Len(relayInstances) = 3
    /\ merged # <<>>
    /\ \E s \in Iterators : produced[s] = 0

\* The event in the settled operation of source s has not been taken yet.
Backlog(s) ==
    \E j \in DOMAIN indexedPromises :
       /\ indexedPromises[j].src = s
       /\ indexedPromises[j].st = "settled"
       /\ ~indexedPromises[j].done
       /\ \A k \in DOMAIN handled : handled[k] # indexedPromises[j].ev

\* The latest event of source s has been taken and reached the consumer (or,
\* with dedup on, an event with its identifier has).
Served(s) ==
    \E k \in DOMAIN handled :
       /\ handled[k].src = s /\ handled[k].seq = produced[s]
       /\ \E m \in DOMAIN merged :
             \/ merged[m] = handled[k]
             \/ unique /\ merged[m].id = handled[k].id

\* C4: an event that a source has made available is eventually taken and
\* yielded (or dropped as a duplicate) while the merged sequence lasts, that
\* is unless the consumer closes it or a source's rejection ends it: a
\* source whose next() never settles does not hold the event back.
C4_SilentSourceDoesNotBlock ==
    \A s \in 1..Len(relayList) :
        Backlog(s) ~> (Served(s) \/ genPc \in {"closed", "error"})

\* C4 witness: the first source has delivered nothing and its next() is still
\* pending, and an event of the second source has reached the consumer.
C4_Witness ==
    /\ Len(relayInstances) >= 2
    /\ produced[1] = 0
    /\ \E j \in DOMAIN indexedPromises :
          indexedPromises[j].src = 1 /\ indexedPromises[j].st = "pending"
    /\ \E m \in DOMAIN merged : merged[m].src = 2

\* C5: the events of one source occur in the merged sequence in the order in
\* which that source delivered them, with dedup on or off.
C5_PerSourceOrder ==
    \A a, b \in DOMAIN merged :
        (a < b /\ merged[a].src = merged[b].src) => merged[a].seq < merged[b].seq

\* C5 witness: two events of one source are in the merged sequence with an
\* event of another source between them.
C5_Witness ==
    \E a, b, c \in DOMAIN merged :
        /\ a < b /\ b < c
        /\ merged[a].src = merged[c].src
        /\ merged[b].src # merged[a].src

\* C6: after the consumer has stopped early no next() of a source is left
\* pending.
C6_EarlyStopReleasesPending ==
    genPc = "closed" =>
        \A j \in DOMAIN indexedPromises : indexedPromises[j].st # "pending"

\* The events taken from source s so far, as their sequence numbers in the
\* order they were taken.
TakenFrom(s) ==
    LET pick[n \in 0..Len(handled)] ==
            IF n = 0 THEN <<>>
            ELSE IF handled[n].src = s THEN Append(pick[n - 1], handled[n].seq)
                 ELSE pick[n - 1]
    IN pick[Len(handled)]

\* The result in slot j has been taken by the loop already.
Consumed(j) ==
    /\ indexedPromises[j].st = "settled"
    /\ ~indexedPromises[j].done
    /\ \E k \in DOMAIN handled : handled[k] = indexedPromises[j].ev

\* C19: while the merge loop runs there is one slot per active source, at the
\* position of its source, and the index a slot's operation carries is that
\* position (zero-based), also after earlier sources were removed; every slot
\* holds an operation that is pending or whose result has not been taken,
\* except the slot of the event the generator is suspended on; the loop never
\* indexes outside the active list (it throws nothing but a source's
\* rejection, whose reason keeps the index its operation was armed with); the events taken from one source are its
\* 1st, 2nd, ... in turn (none skipped, none taken twice) with at most one
\* delivered and not yet taken; a source that reported exhaustion has no
\* operation other than its done result and, once removed, stays removed.
C19_IndexBookkeeping ==
    /\ genPc = "error" => indexResult.st = "rejected"
    /\ genPc \in {"race", "yield", "done", "closed"} =>
          /\ Len(indexedPromises) = Len(relayIterators)
          /\ \A a, b \in DOMAIN relayIterators :
                relayIterators[a] = relayIterators[b] => a = b
          /\ \A j \in DOMAIN indexedPromises :
                /\ indexedPromises[j].src = relayIterators[j]
                /\ indexedPromises[j].st # "rejected" =>
                      indexedPromises[j].i = j - 1
                /\ Consumed(j) <=>
                      (genPc \in {"yield", "closed"} /\ j = indexResult.i + 1)
                /\ indexedPromises[j].src \in exhausted =>
                      (indexedPromises[j].st = "settled" /\ indexedPromises[j].done)
          /\ \A s \in Iterators :
                /\ TakenFrom(s) = [n \in 1..Len(TakenFrom(s)) |-> n]
                /\ produced[s] - Len(TakenFrom(s)) \in {0, 1}
                /\ (\A j \in DOMAIN relayIterators : relayIterators[j] # s) =>
                      (s \in exhausted /\ Len(TakenFrom(s)) = produced[s])

\* C19 witness: of three sources the first two have been removed, the second
\* before it delivered anything; the third, now at position 0, has had two of
\* its events taken and is re-armed with an operation carrying index 0.
C19_Witness ==
    /\ genPc = "race"
    /\ Len(relayInstances) = 3
    /\ relayIterators = <<3>>
    /\ produced[2] = 0
    /\ TakenFrom(3) = <<1, 2>>
    /\ indexedPromises[1] = indexPromise(3, 0)

(* --------------------- claims about publishing ------------------------- *)

HasTag(ev, ref, marker) ==
    \E t \in DOMAIN ev.tags : ev.tags[t] = <<"e", ref, "", marker>>

\* The log holds the entry [op, k, r] before position a.
LoggedBefore(a, op, k, r) ==
    \E b \in 1..(a - 1) : pubLog[b] = [op |-> op, k |-> k, r |-> r]

\* C7: sendThreadPost with fewer than 2 items throws 'At least 2 posts
\* required', and nothing was built, signed or handed to a relay; with 2 or
\* more items it does not throw that error.
C7_ShortThreadThrows ==
    /\ (threadPc # "idle" /\ Len(threadArg) < 2) =>
          /\ threadPc = "thrown"
          /\ thrown = "At least 2 posts required"
          /\ postNo = 0 /\ event = NoNostrEvent /\ sendPc = "none"
          /\ pubLog = <<>> /\ inFlight = {} /\ posted = <<>>
    /\ thrown = "At least 2 posts required" => Len(threadArg) < 2

\* C7 witness: a call with a single item has thrown while sessions are active.
C7_Witness ==
    /\ threadPc = "thrown"
    /\ Len(threadArg) = 1
    /\ relayInstances # <<>>

\* C8: once sendThreadPost has returned, as many events as the list has
\* items are published, and every event after the first has an 'e' tag
\* marked 'reply' that refers to the preceding post's id.
C8_FollowUpsCarryReplyTag ==
    /\ threadPc = "returned" => Len(posted) = Len(threadArg)
    /\ \A k \in 2..Len(posted) : HasTag(posted[k], posted[k - 1].id, "reply")

\* C9: the root post has no tags, the first follow-up has a root tag to the
\* root post and a reply tag to the preceding post, every later item has
\* only a reply tag to the preceding post.
C9_RootAndReplyOnFirstFollowUp ==
    \A k \in DOMAIN posted :
        /\ k = 1 => posted[k].tags = <<>>
        /\ k = 2 => /\ HasTag(posted[k], posted[1].id, "root")
                    /\ HasTag(posted[k], posted[k - 1].id, "reply")
        /\ k >= 3 => posted[k].tags = << <<"e", posted[k - 1].id, "", "reply">> >>

\* C10: when the event of item k+1 is built, the send of item k to every
\* active session has been started and has settled (sent or failed); the
\* steps of one item (build, id, sign, sends and their outcomes) are one
\* block of the history, the blocks in item order, and the sends in flight
\* are those of the current item only.
C10_ItemCompleteBeforeNext ==
    /\ \A a \in DOMAIN pubLog :
          (pubLog[a].op = "build" /\ pubLog[a].k > 1) =>
             \A r \in DOMAIN relayInstances :
                \E c \in 1..(a - 1) :
                   /\ pubLog[c].op \in {"sent", "failed"}
                   /\ pubLog[c].k = pubLog[a].k - 1
                   /\ pubLog[c].r = r
                   /\ LoggedBefore(c, "send", pubLog[a].k - 1, r)
    /\ \A a \in DOMAIN pubLog :
          LET before == IF a = 1 THEN 0 ELSE pubLog[a - 1].k
          IN pubLog[a].k = IF pubLog[a].op = "build" THEN before + 1 ELSE before
    /\ \A call \in inFlight : call.k = postNo

\* C10 witness: the second item is being built after the first item's send
\* failed on one session and succeeded on another.
C10_Witness ==
    /\ pubLog # <<>>
    /\ pubLog[Len(pubLog)] = [op |-> "build", k |-> 2, r |-> 0]
    /\ \E r1, r2 \in DOMAIN relayInstances :
          /\ LoggedBefore(Len(pubLog), "failed", 1, r1)
          /\ LoggedBefore(Len(pubLog), "sent", 1, r2)

\* C11: a send that failed on one session is logged and nothing is thrown:
\* the sendPost call it belongs to goes on or has returned its post; every
\* sendPost call that is over has returned a post, and its event was handed
\* to every active session, whatever the outcomes on the other sessions.
C11_PublishFailureIsolated ==
    /\ \A a \in DOMAIN pubLog :
          pubLog[a].op = "failed" =>
             /\ thrown = "" /\ threadPc # "thrown"
             /\ \/ pubLog[a].k <= Len(posted)
                \/ pubLog[a].k = postNo /\ sendPc = "relays"
    /\ Len(posted) = IF sendPc = "none" THEN postNo ELSE postNo - 1
    /\ \A k \in DOMAIN posted, r \in DOMAIN relayInstances :
          LoggedBefore(Len(pubLog) + 1, "send", k, r)

\* C11 witness: a thread has been published although the first post failed
\* on every session and the second failed on the first session only.
C11_Witness ==
    /\ threadPc = "returned"
    /\ Len(relayInstances) >= 2
    /\ \A r \in DOMAIN relayInstances :
          LoggedBefore(Len(pubLog), "failed", 1, r)
    /\ LoggedBefore(Len(pubLog), "failed", 2, 1)
    /\ LoggedBefore(Len(pubLog), "sent", 2, 2)

\* The event invariants: the id is the hash of the event's own canonical
\* tuple, the sig is the signature over that id by the client's private key,
\* the author is the client's public key, and neither id nor sig is empty.
EventInvariants(ev) ==
    /\ ev.id # NoId /\ ev.sig # NoId
    /\ ev.id = calculateId(ev)
    /\ ev.sig = signId(ev.id)
    /\ ev.pubkey = publicKey

\* C20: an event is handed to a session only with the event invariants
\* satisfied; while sendPost goes over the sessions the event does not
\* change, so every session gets the same signed event, the event of a send
\* in flight is the current one, and the event the post is made from is the
\* event that was sent.
C20_SentEventsSatisfyInvariants ==
    /\ [](sendPc = "relays" => EventInvariants(event))
    /\ [](\A call \in inFlight : EventInvariants(call.ev) /\ call.ev = event)
    /\ [](\A k \in DOMAIN posted : EventInvariants(posted[k]))
    /\ [][(sendPc = "relays" /\ sendPc' = "relays") => event' = event]_vars
    /\ [][(sendPc = "relays" /\ Len(posted') > Len(posted)) =>
             posted'[Len(posted')] = event]_vars

\* C20 witness: the third event of a thread, which has a reply tag, is in
\* flight to the second session after its send to the first session failed.
C20_Witness ==
    /\ \E call \in inFlight :
          /\ call.k = 3 /\ call.r = 2
          /\ call.ev.tags # <<>>
    /\ pubLog[Len(pubLog) - 1] = [op |-> "failed", k |-> 3, r |-> 1]

(* ---------------------- claims about sessions -------------------------- *)

\* The connect() call under way or last made has logged op for endpoint e.
ConnLogged(op, e) ==
    \E a \in DOMAIN connLog : connLog[a] = [op |-> op, e |-> e]

\* The endpoints the current connect() call connected, in list order.
ConnectedNow ==
    LET pick[e \in 0..Len(endpoints)] ==
            IF e = 0 THEN <<>>
            ELSE IF ConnLogged("connected", e)
                 THEN Append(pick[e - 1], endpoints[e]) ELSE pick[e - 1]
    IN pick[Len(endpoints)]

\* C12: connect() throws only for an empty list, and then attempts nothing;
\* over a non-empty list it returns after an attempt on every endpoint, in
\* list order; each attempt ended connected or with a relayError, never both;
\* after a relayError the next endpoint is attempted (or, after the last,
\* connect() returns); the sessions added by the call are exactly the
\* endpoints that connected, in list order, also when none did.
C12_ConnectAttemptsEveryEndpoint ==
    /\ connPc = "thrown" <=> (connPc # "idle" /\ endpoints = <<>>)
    /\ connPc = "thrown" => (connLog = <<>> /\ Len(relayInstances) = connBase)
    /\ connPc = "returned" =>
          \A e \in DOMAIN endpoints :
             /\ ConnLogged("attempt", e)
             /\ ConnLogged("connected", e) \/ ConnLogged("relayError", e)
    /\ \A e \in DOMAIN endpoints :
          ~(ConnLogged("connected", e) /\ ConnLogged("relayError", e))
    /\ \A a \in DOMAIN connLog :
          /\ connLog[a].op = "attempt" =>
                connLog[a].e = 1 + Cardinality({b \in 1..(a - 1) :
                                                  connLog[b].op = "attempt"})
          /\ connLog[a].op = "relayError" =>
                IF connLog[a].e = Len(endpoints)
                THEN connPc = "returned"
                ELSE /\ a < Len(connLog)
                     /\ connLog[a + 1] = [op |-> "attempt", e |-> connLog[a].e + 1]
    /\ connPc \in {"connecting", "returned"} =>
          /\ Len(relayInstances) = connBase + Len(ConnectedNow)
          /\ SubSeq(relayInstances, connBase + 1, Len(relayInstances))
                = ConnectedNow

\* C12 witness: connect() over three endpoints has returned; the second
\* endpoint failed and is the only one left out of the sessions.
C12_Witness ==
    /\ connPc = "returned"
    /\ Len(endpoints) = 3
    /\ ConnLogged("relayError", 2)
    /\ relayInstances = <<"r1", "r3">>

\* C13: a batch starts the operation on every active session before any of
\* them settles, so it holds one promise per session; it never rejects,
\* whatever the sessions' operations do; it resolves only when every one of
\* them has settled, with one outcome per active session; the active set is
\* left as it was.
C13_BatchIsBestEffort ==
    /\ batchPc # "rejected"
    /\ batchPc \in {"waiting", "resolved"} =>
          /\ batchOp \in {"disconnect", "reconnect"}
          /\ Len(outcomes) = Len(relayInstances)
    /\ batchPc = "resolved" =>
          \A j \in DOMAIN outcomes : outcomes[j] \in {"fulfilled", "rejected"}

\* C13 witness: a reconnect over three sessions has resolved with the first
\* session's connect failed and the other two succeeded.
C13_Witness ==
    /\ batchPc = "resolved"
    /\ batchOp = "reconnect"
    /\ outcomes = <<"rejected", "fulfilled", "fulfilled">>

(* ---------------------- claims about the identity ---------------------- *)

\* C14: whenever a private key is stored, the stored public key is the one
\* derived from it, after any sequence of assignments to privateKey and
\* publicKey.
C14_PublicKeyDerivedFromPrivate ==
    privateKey # NoKey => publicKey = getPublicKey(privateKey)

(* ---------------------- claims about the profile ----------------------- *)

\* C15: when the loop over the metadata events is over, the profile's name
\* (with it about and picture) is that of the verified metadata event with
\* the greatest created_at among those the active relays returned, whichever
\* relay returned it: it is the name of every event that has the greatest
\* created_at.
C15_LatestMetadataWins ==
    profPc = "metadata" =>
        \A k \in DOMAIN profEvents :
            (\A m \in DOMAIN profEvents :
                profEvents[m].created_at <= profEvents[k].created_at)
            => profileInfo.name = ParsedName(profEvents[k].content)

\* C16: getProfile raises no error over the content of an event ("thrown"),
\* whatever the content of the events.
C16_MalformedContentIsSkipped ==
    profPc # "thrown"

\* C17: every received event that getProfile uses for the profile (the
\* metadata events, the contact list taken for relays and following, the
\* events whose authors become the followers) passes verification.
C17_UnverifiedNeverSurfaced ==
    /\ \A k \in DOMAIN profEvents : isValidEvent(profEvents[k])
    /\ profileInfo.following # <<>> => isValidEvent(followingInfo[1])
    /\ \A k \in DOMAIN followerEvents : isValidEvent(followerEvents[k])

(* ------------------------ claims about the bot ------------------------- *)

\* A run's thread is sent while another run's disconnect() is under way.
DisconnectDuringSend(c, d) ==
    pollPc[c] = "disconnect" /\ pollPc[d] \in {"first", "loop"}

\* C23: runs of doIt do not interfere, however they overlap: no run's
\* sendThreadPost throws 'At least 2 posts required'; every text a run sends
\* is a message that run built; a run whose sendThreadPost has returned has
\* sent exactly two texts, its failed-swap message and then its mint-status
\* message; and no run has called disconnect() while another run's thread
\* is being sent.
C23_CyclesDoNotInterfere ==
    \A c \in Runs :
       /\ caught[c] # "At least 2 posts required"
       /\ \A j \in DOMAIN published[c] : published[c][j].run = c
       /\ (pollPc[c] \in {"disconnect", "done"} /\ published[c] # <<>>) =>
              /\ Len(published[c]) = 2
              /\ published[c][1].kind = "swaps"
              /\ published[c][2].kind # "swaps"
       /\ \A d \in Runs \ {c} : ~DisconnectDuringSend(c, d)

\* C22: whatever connect, disconnect and reconnect calls were made, no two
\* active sessions are sessions of the same endpoint, so the loop of sendPost
\* over the sessions hands an event to each endpoint at most once.
C22_OneSessionPerEndpoint ==
    \A a, b \in DOMAIN relayInstances :
        relayInstances[a] = relayInstances[b] => a = b

\* C21: the event sendReplyPost publishes carries a reply-tag whose
\* referenced id is the id of the post replied to, whatever references that
\* post has itself, none included.
C21_ReplyReferencesParent ==
    replyPc = "returned" =>
        HasTag(posted[Len(posted)], parentPost.id, "reply")

\* The mints that had a saved state as run c started and for which the
\* audit API had another state then.
ChangedAtStart(c) ==
    IF ~IsArray(atStart[c].saved) THEN {}
    ELSE {m \in DOMAIN atStart[c].saved :
             atStart[c].mints[m] # atStart[c].saved[m]}

\* C18: when a run of doIt is over without an error caught and, as it
\* started, the audit API had for some mints a state other than the saved
\* one, a thread published in that run holds a message reporting those
\* changes.
C18_EveryCycleReportsChanges ==
    \A c \in Runs :
        (pollPc[c] = "done" /\ caught[c] = "" /\ ChangedAtStart(c) # {}) =>
            \E j \in DOMAIN published[c] :
               /\ published[c][j].kind = "mints"
               /\ published[c][j].changes = ChangedAtStart(c)

====
